---- MODULE Spec2Model ----
(***************************************************************************)
(* A model of src/src/App.tsx (the CoralScape "tank" composer): the React  *)
(* state of App, its event handlers, and the asynchronous continuations of *)
(* the catalog fetch, the base-image upload and the export.                *)
(*                                                                         *)
(* Conventions                                                             *)
(*  - A JavaScript string is a sequence of characters; a character is a    *)
(*    one-character string, or the name "U+XXXX" of a code point that a    *)
(*    TLA+ string cannot spell.                                            *)
(*  - A JavaScript number is an IEEE-754 double (see Numbers); the natural *)
(*    sizes of images and the results of parseInt are integers of the TLC  *)
(*    range.                                                               *)
(*  - Every await of a handler is a separate step; the synchronous code    *)
(*    between two awaits is one atomic action.                             *)
(*  - Nothing keeps a handler from being invoked while an earlier          *)
(*    invocation of it is awaiting: uploads and exports are the bags of    *)
(*    the upload and export invocations in flight.                         *)
(*  - isDragging and the refs only style and locate the page; they are    *)
(*    not modelled.                                                        *)
(*  - event is the observable outcome of the last step: the toast it       *)
(*    raised, whether the handler failed in it, and what it produced.      *)
(***************************************************************************)
EXTENDS Integers, Sequences, FiniteSets, Bags

VARIABLES imageData, loading, baseImage, overlayImages, selectedOverlay,
          fetchCall, uploads, exports, frame, event

vars == <<imageData, loading, baseImage, overlayImages, selectedOverlay,
          fetchCall, uploads, exports, frame, event>>

(***************************************************************************)
(* Bounds of the model.                                                    *)
(***************************************************************************)
MaxOverlays == 2
MaxRows == 2
\* the invocations of one handler in flight at a time
MaxInflight == 2

(***************************************************************************)
(* Numbers.  A JavaScript number is an IEEE-754 double.  The TLC integers  *)
(* are too narrow for its 53-bit significand, so a natural number of any   *)
(* size is a sequence of limbs in base 2^15, least significant first and   *)
(* with no leading zero limb, and a double is <<s, m, e>>: the number      *)
(* s * m * 2^e with s the sign (1 or -1), m an odd natural number below    *)
(* 2^53 (or zero, with s = 1 and e = 0) and e an integer.  Every result is *)
(* rounded to the nearest double, ties to even.  Infinities, NaN, the      *)
(* signed zero and the subnormal range are not reached by the program's    *)
(* arithmetic on the inputs below and are not modelled.                    *)
(***************************************************************************)
LimbBits == 15
LimbBase == 2 ^ LimbBits
SignificandBits == 53

Abs(n) == IF n < 0 THEN -n ELSE n
Max(a, b) == IF a >= b THEN a ELSE b

RECURSIVE NNorm(_)
NNorm(a) ==
  IF a = <<>> THEN a
  ELSE IF a[Len(a)] = 0 THEN NNorm(SubSeq(a, 1, Len(a) - 1))
  ELSE a

RECURSIVE NFromInt(_)
NFromInt(n) ==
  IF n = 0 THEN <<>> ELSE <<n % LimbBase>> \o NFromInt(n \div LimbBase)

NLimb(a, i) == IF i <= Len(a) THEN a[i] ELSE 0

RECURSIVE NAddFrom(_, _, _, _)
NAddFrom(a, b, i, carry) ==
  IF i > Len(a) /\ i > Len(b)
  THEN IF carry = 0 THEN <<>> ELSE <<carry>>
  ELSE LET s == NLimb(a, i) + NLimb(b, i) + carry
       IN  <<s % LimbBase>> \o NAddFrom(a, b, i + 1, s \div LimbBase)
NAdd(a, b) == NAddFrom(a, b, 1, 0)

\* a - b for a >= b
RECURSIVE NSubFrom(_, _, _, _)
NSubFrom(a, b, i, borrow) ==
  IF i > Len(a) THEN <<>>
  ELSE LET s == a[i] - NLimb(b, i) - borrow
       IN  IF s < 0 THEN <<s + LimbBase>> \o NSubFrom(a, b, i + 1, 1)
           ELSE <<s>> \o NSubFrom(a, b, i + 1, 0)
NSub(a, b) == NNorm(NSubFrom(a, b, 1, 0))

\* -1, 0 or 1 as a < b, a = b or a > b
RECURSIVE NCmpFrom(_, _, _)
NCmpFrom(a, b, i) ==
  IF i = 0 THEN 0
  ELSE IF a[i] < b[i] THEN -1
  ELSE IF a[i] > b[i] THEN 1
  ELSE NCmpFrom(a, b, i - 1)
NCmp(a, b) ==
  IF Len(a) < Len(b) THEN -1
  ELSE IF Len(a) > Len(b) THEN 1
  ELSE NCmpFrom(a, b, Len(a))

\* a * k for 0 <= k < 2^15
RECURSIVE NMulSmallFrom(_, _, _, _)
NMulSmallFrom(a, k, i, carry) ==
  IF i > Len(a)
  THEN IF carry = 0 THEN <<>> ELSE <<carry>>
  ELSE LET p == a[i] * k + carry
       IN  <<p % LimbBase>> \o NMulSmallFrom(a, k, i + 1, p \div LimbBase)
NMulSmall(a, k) == IF k = 0 THEN <<>> ELSE NMulSmallFrom(a, k, 1, 0)

NShiftLimbs(a, n) == IF a = <<>> THEN a ELSE [i \in 1..n |-> 0] \o a

RECURSIVE NMulFrom(_, _, _)
NMulFrom(a, b, i) ==
  IF i > Len(b) THEN <<>>
  ELSE NAdd(NShiftLimbs(NMulSmall(a, b[i]), i - 1), NMulFrom(a, b, i + 1))
NMul(a, b) ==
  IF Len(b) = 1 THEN NMulSmall(a, b[1])
  ELSE IF Len(a) = 1 THEN NMulSmall(b, a[1])
  ELSE NMulFrom(a, b, 1)

\* a * 2^k
NShl(a, k) == NShiftLimbs(NMulSmall(a, 2 ^ (k % LimbBits)), k \div LimbBits)

\* floor(a / 2^k)
NShr(a, k) ==
  LET n == k \div LimbBits
      r == k % LimbBits
      up == SubSeq(a, n + 1, Len(a))
  IN  NNorm([i \in 1..Len(up) |->
               (up[i] \div (2 ^ r))
               + (NLimb(up, i + 1) % (2 ^ r)) * (2 ^ (LimbBits - r))])

\* bit k of a (bit 0 is the least significant)
NBit(a, k) == (NLimb(a, (k \div LimbBits) + 1) \div (2 ^ (k % LimbBits))) % 2

\* a is a multiple of 2^k
NLowZero(a, k) ==
  /\ \A i \in 1..(k \div LimbBits) : NLimb(a, i) = 0
  /\ NLimb(a, (k \div LimbBits) + 1) % (2 ^ (k % LimbBits)) = 0

RECURSIVE IntBitLen(_)
IntBitLen(n) == IF n = 0 THEN 0 ELSE 1 + IntBitLen(n \div 2)
NBitLen(a) ==
  IF a = <<>> THEN 0 ELSE LimbBits * (Len(a) - 1) + IntBitLen(a[Len(a)])

\* the number of trailing zero bits of n # 0, and of a # 0
RECURSIVE IntTrailingZeros(_)
IntTrailingZeros(n) == IF n % 2 = 1 THEN 0 ELSE 1 + IntTrailingZeros(n \div 2)
RECURSIVE NTrailingZerosFrom(_, _)
NTrailingZerosFrom(a, i) ==
  IF a[i] = 0 THEN LimbBits + NTrailingZerosFrom(a, i + 1)
  ELSE IntTrailingZeros(a[i])
NTrailingZeros(a) == NTrailingZerosFrom(a, 1)

\* the largest q below 2^15 with q * d <= r, settled from bit b down
RECURSIVE NDigitFrom(_, _, _, _)
NDigitFrom(r, d, q, b) ==
  IF b < 0 THEN q
  ELSE LET t == q + 2 ^ b
       IN  IF NCmp(NMulSmall(d, t), r) <= 0 THEN NDigitFrom(r, d, t, b - 1)
           ELSE NDigitFrom(r, d, q, b - 1)

\* long division of the limbs i.. of n by d # 0: the limbs of the quotient
\* and the remainder
RECURSIVE NDivModFrom(_, _, _)
NDivModFrom(n, d, i) ==
  IF i > Len(n) THEN <<<<>>, <<>>>>
  ELSE LET prev == NDivModFrom(n, d, i + 1)
           r == NNorm(<<n[i]>> \o prev[2])
           q == NDigitFrom(r, d, 0, LimbBits - 1)
       IN  <<<<q>> \o prev[1], NSub(r, NMulSmall(d, q))>>
\* the same for a divisor d of one limb: the limbs of the quotient and the
\* remainder as an integer
RECURSIVE NDivModSmallFrom(_, _, _)
NDivModSmallFrom(n, d, i) ==
  IF i > Len(n) THEN <<<<>>, 0>>
  ELSE LET prev == NDivModSmallFrom(n, d, i + 1)
           r == prev[2] * LimbBase + n[i]
       IN  <<<<r \div d>> \o prev[1], r % d>>

\* <<floor(n / d), n mod d>> for d # 0
NDivMod(n, d) ==
  IF Len(d) = 1
  THEN LET qr == NDivModSmallFrom(n, d[1], 1)
       IN  <<NNorm(qr[1]), NFromInt(qr[2])>>
  ELSE LET qr == NDivModFrom(n, d, 1) IN <<NNorm(qr[1]), qr[2]>>

DZero == <<1, <<>>, 0>>

\* s * m * 2^e with m of at most 53 bits, in the unique form with m odd
DCanon(s, m, e) ==
  IF m = <<>> THEN DZero
  ELSE LET tz == NTrailingZeros(m) IN <<s, NShr(m, tz), e + tz>>

\* the double nearest to s * m * 2^e, ties to the even significand
DRound(s, m, e) ==
  LET k == NBitLen(m) - SignificandBits
  IN  IF k <= 0 THEN DCanon(s, m, e)
      ELSE LET q == NShr(m, k)
               up == /\ NBit(m, k - 1) = 1
                     /\ (~NLowZero(m, k - 1) \/ NBit(m, k) = 1)
           IN  DCanon(s, IF up THEN NAdd(q, <<1>>) ELSE q, e + k)

\* the double of an integer (of the TLC range, which is exact)
DInt(n) ==
  IF n = 0 THEN DZero
  ELSE LET tz == IntTrailingZeros(Abs(n))
       IN  <<IF n < 0 THEN -1 ELSE 1, NFromInt(Abs(n) \div (2 ^ tz)), tz>>

\* a is an integer below 2^30 in magnitude, and that integer
IsSmallInt(a) == Len(a[2]) <= 1 /\ a[3] >= 0 /\ a[3] < LimbBits
SmallInt(a) == a[1] * NLimb(a[2], 1) * (2 ^ a[3])

DNeg(a) == IF a[2] = <<>> THEN a ELSE <<-a[1], a[2], a[3]>>

\* a * b; the product of two significands of one limb is odd and exact
DMul(a, b) ==
  IF a[2] = <<>> \/ b[2] = <<>> THEN DZero
  ELSE IF Len(a[2]) = 1 /\ Len(b[2]) = 1
  THEN <<a[1] * b[1], NFromInt(a[2][1] * b[2][1]), a[3] + b[3]>>
  ELSE DRound(a[1] * b[1], NMul(a[2], b[2]), a[3] + b[3])

\* a / b for b # 0: the quotient to 55 bits or more, and a sticky last bit
DDiv(a, b) ==
  IF a[2] = <<>> THEN DZero
  ELSE IF IsSmallInt(a) /\ IsSmallInt(b) /\ SmallInt(a) % Abs(SmallInt(b)) = 0
  THEN DInt(b[1] * (SmallInt(a) \div Abs(SmallInt(b))))
  ELSE LET p == Max(0, SignificandBits + 2 + NBitLen(b[2]) - NBitLen(a[2]))
           qr == NDivMod(NShl(a[2], p), b[2])
           sticky == IF qr[2] = <<>> THEN <<>> ELSE <<1>>
       IN  DRound(a[1] * b[1], NAdd(NShl(qr[1], 1), sticky), a[3] - b[3] - p - 1)

\* a + b
DAdd(a, b) ==
  IF IsSmallInt(a) /\ IsSmallInt(b) THEN DInt(SmallInt(a) + SmallInt(b))
  ELSE
  LET e == IF a[3] <= b[3] THEN a[3] ELSE b[3]
      ma == NShl(a[2], a[3] - e)
      mb == NShl(b[2], b[3] - e)
  IN  IF a[1] = b[1] THEN DRound(a[1], NAdd(ma, mb), e)
      ELSE IF NCmp(ma, mb) >= 0 THEN DRound(a[1], NSub(ma, mb), e)
      ELSE DRound(b[1], NSub(mb, ma), e)

DSub(a, b) == DAdd(a, DNeg(b))

\* |a| <= |b|
DMagLeq(a, b) ==
  LET la == NBitLen(a[2]) + a[3]
      lb == NBitLen(b[2]) + b[3]
      e == IF a[3] <= b[3] THEN a[3] ELSE b[3]
  IN  IF a[2] = <<>> THEN TRUE
      ELSE IF b[2] = <<>> THEN FALSE
      ELSE IF la # lb THEN la < lb
      ELSE NCmp(NShl(a[2], a[3] - e), NShl(b[2], b[3] - e)) <= 0

\* a <= b
DLeq(a, b) ==
  IF a[1] # b[1] THEN a[1] = -1
  ELSE IF a[1] = 1 THEN DMagLeq(a, b)
  ELSE DMagLeq(b, a)

\* Math.min(a, b) and Math.max(a, b)
DMin(a, b) == IF DLeq(a, b) THEN a ELSE b
DMax(a, b) == IF DLeq(a, b) THEN b ELSE a

(***************************************************************************)
(* Strings.                                                                *)
(***************************************************************************)
\* the characters String.prototype.trim() removes and parseInt skips: the
\* WhiteSpace and LineTerminator code points of ECMAScript
Whitespace ==
  {" ", "\t", "\n", "\f", "\r", "U+000B", "U+00A0", "U+FEFF", "U+1680",
   "U+2000", "U+2001", "U+2002", "U+2003", "U+2004", "U+2005", "U+2006",
   "U+2007", "U+2008", "U+2009", "U+200A", "U+2028", "U+2029", "U+202F",
   "U+205F", "U+3000"}
Digits == <<"0", "1", "2", "3", "4", "5", "6", "7", "8", "9">>
LowerHex == <<"a", "b", "c", "d", "e", "f">>
UpperHex == <<"A", "B", "C", "D", "E", "F">>

\* <<v>> for a digit of value v in the radix, <<>> for any other character
DigitVal(c, radix) ==
  IF \E k \in 1..10 : Digits[k] = c
  THEN <<(CHOOSE k \in 1..10 : Digits[k] = c) - 1>>
  ELSE IF radix = 16 /\ \E k \in 1..6 : LowerHex[k] = c
  THEN <<(CHOOSE k \in 1..6 : LowerHex[k] = c) + 9>>
  ELSE IF radix = 16 /\ \E k \in 1..6 : UpperHex[k] = c
  THEN <<(CHOOSE k \in 1..6 : UpperHex[k] = c) + 9>>
  ELSE <<>>

\* String.prototype.split(sep) for a one-character separator
RECURSIVE Split(_, _)
Split(s, sep) ==
  IF \A k \in 1..Len(s) : s[k] # sep
  THEN <<s>>
  ELSE LET k == CHOOSE j \in 1..Len(s) :
                  s[j] = sep /\ \A m \in 1..(j - 1) : s[m] # sep
       IN  <<SubSeq(s, 1, k - 1)>> \o Split(SubSeq(s, k + 1, Len(s)), sep)

\* String.prototype.trim()
RECURSIVE Trim(_)
Trim(s) ==
  IF s = <<>> THEN s
  ELSE IF s[1] \in Whitespace THEN Trim(Tail(s))
  ELSE IF s[Len(s)] \in Whitespace THEN Trim(SubSeq(s, 1, Len(s) - 1))
  ELSE s

\* col.replace(/"/g, '')
StripQuotes(s) == SelectSeq(s, LAMBDA c : c # "\"")

\* Number.prototype.toString() of a natural number
RECURSIVE toString(_)
toString(n) ==
  IF n < 10 THEN <<Digits[n + 1]>>
  ELSE toString(n \div 10) \o <<Digits[(n % 10) + 1]>>

\* parseInt yields <<n>>, or <<>> for NaN
NaN == <<>>

\* the value of the longest prefix of s of digits of the radix
RECURSIVE DigitsPrefix(_, _, _)
DigitsPrefix(s, radix, acc) ==
  IF s # <<>> /\ DigitVal(s[1], radix) # <<>>
  THEN DigitsPrefix(Tail(s), radix, radix * acc + DigitVal(s[1], radix)[1])
  ELSE acc

\* parseInt(s) with no radix argument: leading white space, an optional sign,
\* an optional 0x or 0X that selects radix 16 (radix 10 otherwise), then the
\* longest prefix of digits of the radix; NaN when that prefix is empty
parseInt(s) ==
  LET t == Trim(s)
      neg == t # <<>> /\ t[1] = "-"
      u == IF t # <<>> /\ t[1] \in {"-", "+"} THEN Tail(t) ELSE t
      hex == Len(u) >= 2 /\ u[1] = "0" /\ u[2] \in {"x", "X"}
      radix == IF hex THEN 16 ELSE 10
      z == IF hex THEN SubSeq(u, 3, Len(u)) ELSE u
  IN  IF z = <<>> \/ DigitVal(z[1], radix) = <<>> THEN NaN
      ELSE IF neg THEN <<-DigitsPrefix(z, radix, 0)>>
      ELSE <<DigitsPrefix(z, radix, 0)>>

\* v || d for a number v: NaN and 0 are falsy
NumOr(v, d) == IF v = NaN \/ v = <<0>> THEN d ELSE v[1]
\* s || d for a string s: the empty string is falsy
StrOr(s, d) == IF s = <<>> THEN d ELSE s

(***************************************************************************)
(* fetchGoogleSheetsData: the CSV parse.                                   *)
(***************************************************************************)
DefaultSize == 300
MinColumns == 6

Columns(line) ==
  LET raw == Split(line, ",")
  IN  [k \in 1..Len(raw) |-> Trim(StripQuotes(raw[k]))]

\* `Image ${i}`: the name of a row with a blank name at index i of lines
\* (0-based); the variant numbers the lines from 1
DefaultNameLineNo(i) == <<"I", "m", "a", "g", "e", " ">> \o toString(i + 1)
DefaultName(i) == <<"I", "m", "a", "g", "e", " ">> \o toString(i)

RowAccepted(columns) == Len(columns) >= MinColumns

RowRecord(columns, i) ==
  [name |-> StrOr(columns[2], DefaultName(i)),
   imageUrl |-> columns[3],
   thumbnailImageUrl |-> StrOr(columns[4], columns[3]),
   fullSizeWidth |-> NumOr(parseInt(columns[5]), DefaultSize),
   fullSizeHeight |-> NumOr(parseInt(columns[6]), DefaultSize)]

\* the loop body for i = k - 1 (lines is 1-based here, 0-based in the code)
RECURSIVE ParseFrom(_, _)
ParseFrom(lines, k) ==
  IF k > Len(lines) THEN <<>>
  ELSE LET line == Trim(lines[k])
           columns == Columns(line)
       IN  IF line = <<>> THEN ParseFrom(lines, k + 1)
           ELSE IF RowAccepted(columns)
           THEN <<RowRecord(columns, k - 1)>> \o ParseFrom(lines, k + 1)
           ELSE ParseFrom(lines, k + 1)

ParseCsv(csvText) == ParseFrom(Split(csvText, "\n"), 2)

(***************************************************************************)
(* Inputs: the catalog texts the sheet may serve, the local files the user *)
(* may pick, the watermark asset, the display frame and the drop points.   *)
(***************************************************************************)
HeaderLine == <<"#", ",", "n">>
LineA == <<"1", ",", "A", ",", "a", ",", ",", "2", "0", "0", ",", "3">>
LineB == <<"2", ",", ",", "b", ",", "t", ",", "1", "0", "0", "0", ",", "5", "0", "0">>
LineSquare == <<"1", ",", "A", ",", "a", ",", ",", "2", "0", "0", ",", "2", "0", "0">>
LineQuoted == <<"3", ",", "\"", " ", "\"", ",", "c", ",", ",", "x", ",", "0", ",", "7">>
LineShort == <<"4", ",", "D", ",", "d", ",", "t", ",", "9">>
LineBlank == <<" ", "\r">>
LineCr == <<",", ",", "e", ",", ",", "-", "5", ",", "4", "0", "p", "x", "\r">>

LineQuotedComma ==
  <<"5", ",", "\"", "F", ",", "G", "\"", ",", "f", ",", "t", ",", "1", "0", ",", "2", "0">>

\* a name of white space other than the blank, and sizes with a 0x prefix
LineHex ==
  <<"6", ",", "\f", "U+00A0", ",", "g", ",", ",", "U+FEFF", "0", "X", "1", "f",
    ",", "0", "x">>

LinePool ==
  {LineA, LineB, LineQuoted, LineShort, LineBlank, LineCr, LineQuotedComma,
   LineHex}

RECURSIVE JoinLines(_)
JoinLines(ls) ==
  IF ls = <<>> THEN <<>>
  ELSE IF Len(ls) = 1 THEN ls[1]
  ELSE ls[1] \o <<"\n">> \o JoinLines(Tail(ls))

\* the catalog served in the interaction specifications
Catalog == JoinLines(<<HeaderLine, LineA, LineB>>)
CsvTexts == {Catalog}
\* every text of a header and up to MaxRows lines of the pool, and the empty text
CsvTextsAll ==
  {<<>>} \cup
  {JoinLines(<<HeaderLine>> \o rows) :
     rows \in UNION {[1..n -> LinePool] : n \in 0..MaxRows}}
\* the catalog that has been loaded when the export is followed
ExportCatalog == JoinLines(<<HeaderLine, LineSquare>>)

TankFile == [name |-> "tank", ok |-> TRUE, width |-> 800, height |-> 600]
CorruptFile == [name |-> "corrupt", ok |-> FALSE, width |-> 0, height |-> 0]
Files == {TankFile, CorruptFile}

WatermarkSizes == {<<200, 100>>}
Frames == {<<400, 300>>, <<300, 600>>}
InitialFrame == <<400, 300>>
\* e.clientX, e.clientY of a drop and the frame's getBoundingClientRect() origin
ClientPoints == {<<50, 110>>}
RectOrigins == {<<20, 20>>}
\* Date.now() as read by a drop: the wall clock, in milliseconds
ClockReadings == {7, 12}
\* the drop point and the clock reading used while exporting
ExportPoints == {<<110, 110>>}
ExportReadings == {7}

(***************************************************************************)
(* Values.                                                                 *)
(***************************************************************************)
Null == <<>>
NoBase == [kind |-> "null"]
NoDetail == [none |-> TRUE]
Quiet == [op |-> "none", failed |-> FALSE, toast |-> "none", detail |-> NoDetail]
Outcome(op, failed, toast, detail) ==
  [op |-> op, failed |-> failed, toast |-> toast, detail |-> detail]

Range(s) == {s[k] : k \in 1..Len(s)}
RemoveAt(s, k) == SubSeq(s, 1, k - 1) \o SubSeq(s, k + 1, Len(s))

\* the invocations in flight: one starts, one ends, one moves on
Started(calls, c) == calls (+) SetToBag({c})
Ended(calls, c) == calls (-) SetToBag({c})
Moved(calls, c, d) == (calls (-) SetToBag({c})) (+) SetToBag({d})

\* reader.readAsDataURL(file): the data URL of the file's bytes
FileDataUrl(f) == [kind |-> "file", file |-> f]
\* canvas.toDataURL() of a canvas holding the image of f and the watermark wm
CanvasDataUrl(f, wm) ==
  [kind |-> "canvas", file |-> f, width |-> f.width, height |-> f.height,
   watermark |-> wm]
\* decoding an image source: <<size>> on load, <<>> on error
Decode(url) ==
  IF url.kind = "canvas" THEN <<<<url.width, url.height>>>>
  ELSE IF url.kind = "file" /\ url.file.ok
       THEN <<<<url.file.width, url.file.height>>>>
       ELSE <<>>

(***************************************************************************)
(* Initial state: App has mounted, and the mount effect has called         *)
(* fetchGoogleSheetsData, which is awaiting fetch().                       *)
(***************************************************************************)
Init ==
  /\ imageData = <<>>
  /\ loading = TRUE
  /\ baseImage = NoBase
  /\ overlayImages = <<>>
  /\ selectedOverlay = Null
  /\ fetchCall = "fetch"
  /\ uploads = EmptyBag
  /\ exports = EmptyBag
  /\ frame = InitialFrame
  /\ event = Quiet

(***************************************************************************)
(* fetchGoogleSheetsData                                                   *)
(***************************************************************************)
\* the Refresh button, disabled while loading
FetchStart ==
  /\ ~loading
  /\ loading' = TRUE
  /\ fetchCall' = "fetch"
  /\ event' = Quiet
  /\ UNCHANGED <<imageData, baseImage, overlayImages, selectedOverlay,
                 uploads, exports, frame>>

\* catch and finally of fetchGoogleSheetsData
FetchCatch ==
  /\ loading' = FALSE
  /\ fetchCall' = "idle"
  /\ event' = Outcome("fetch", TRUE, "error", NoDetail)
  /\ UNCHANGED <<imageData, baseImage, overlayImages, selectedOverlay,
                 uploads, exports, frame>>

\* await fetch(csvUrl) rejects, or the response is not ok
FetchFail ==
  /\ fetchCall = "fetch"
  /\ FetchCatch

\* await fetch(csvUrl) resolves with an ok response
FetchOk ==
  /\ fetchCall = "fetch"
  /\ fetchCall' = "text"
  /\ event' = Quiet
  /\ UNCHANGED <<imageData, loading, baseImage, overlayImages,
                 selectedOverlay, uploads, exports, frame>>

\* await response.text() rejects
TextFail ==
  /\ fetchCall = "text"
  /\ FetchCatch

\* await response.text() resolves with csvText
TextOk(csvText) ==
  /\ fetchCall = "text"
  /\ imageData' = ParseCsv(csvText)
  /\ loading' = FALSE
  /\ fetchCall' = "idle"
  /\ event' = Outcome("fetch", FALSE, "success",
                      [csvText |-> csvText, count |-> Len(ParseCsv(csvText))])
  /\ UNCHANGED <<baseImage, overlayImages, selectedOverlay, uploads,
                 exports, frame>>

(***************************************************************************)
(* addWatermark and handleImageUpload                                      *)
(***************************************************************************)
WatermarkScale == DDiv(DInt(2), DInt(10))
WatermarkMargin == 10
WatermarkAlpha == DDiv(DInt(8), DInt(10))

\* the watermark.onload handler's drawImage call on a canvas of size w x h
WatermarkRect(w, h, ws) ==
  LET watermarkWidth == DMul(DInt(w), WatermarkScale)
      watermarkHeight == DMul(DDiv(DInt(ws[2]), DInt(ws[1])), watermarkWidth)
      x == DSub(DSub(DInt(w), watermarkWidth), DInt(WatermarkMargin))
      y == DSub(DSub(DInt(h), watermarkHeight), DInt(WatermarkMargin))
  IN  [x |-> x, y |-> y, width |-> watermarkWidth, height |-> watermarkHeight,
       alpha |-> WatermarkAlpha]

\* what watermark.onerror resolves with: the canvas holding the source only
\* (the variant resolves with a stamped canvas)
WatermarkErrorResultStamped(f) ==
  CanvasDataUrl(f, <<WatermarkRect(f.width, f.height, <<200, 100>>)>>)
WatermarkErrorResult(f) == CanvasDataUrl(f, <<>>)

\* what the upload does when addWatermark rejects: the catch block (the
\* variant forgets to clear the overlays)
UploadCatchKeepOverlays(originalImage) ==
  /\ baseImage' = originalImage
  /\ UNCHANGED overlayImages
UploadCatch(originalImage) ==
  /\ baseImage' = originalImage
  /\ overlayImages' = <<>>

\* what the upload does when addWatermark resolves
UploadInstall(watermarkedImage) ==
  /\ baseImage' = watermarkedImage
  /\ overlayImages' = <<>>

\* the file input's change event with a file chosen; the input is enabled
\* whatever earlier uploads are doing
UploadStart(f) ==
  /\ BagCardinality(uploads) < MaxInflight
  /\ uploads' = Started(uploads, [pc |-> "read", file |-> f])
  /\ event' = Quiet
  /\ UNCHANGED <<imageData, loading, baseImage, overlayImages,
                 selectedOverlay, fetchCall, exports, frame>>

\* the FileReader of upload u fails: no onerror handler is installed
ReaderError(u) ==
  /\ u.pc = "read"
  /\ uploads' = Ended(uploads, u)
  /\ event' = Outcome("upload", TRUE, "none", [cause |-> "reader"])
  /\ UNCHANGED <<imageData, loading, baseImage, overlayImages,
                 selectedOverlay, fetchCall, exports, frame>>

\* reader.onload; addWatermark gets its 2d context and starts decoding the source
ReaderLoad(u) ==
  /\ u.pc = "read"
  /\ uploads' = Moved(uploads, u, [u EXCEPT !.pc = "img"])
  /\ event' = Quiet
  /\ UNCHANGED <<imageData, loading, baseImage, overlayImages,
                 selectedOverlay, fetchCall, exports, frame>>

\* reader.onload; getContext('2d') yields null: addWatermark rejects
ReaderLoadNoContext(u) ==
  /\ u.pc = "read"
  /\ uploads' = Ended(uploads, u)
  /\ UploadCatch(FileDataUrl(u.file))
  /\ event' = Outcome("upload", TRUE, "none",
                      [cause |-> "context", addWatermark |-> "rejected",
                       file |-> u.file, cleared |-> Len(overlayImages)])
  /\ UNCHANGED <<imageData, loading, selectedOverlay, fetchCall, exports,
                 frame>>

\* img.onload: the source is drawn and the watermark asset is requested
SourceLoad(u) ==
  /\ u.pc = "img"
  /\ Decode(FileDataUrl(u.file)) # <<>>
  /\ uploads' = Moved(uploads, u, [u EXCEPT !.pc = "wm"])
  /\ event' = Quiet
  /\ UNCHANGED <<imageData, loading, baseImage, overlayImages,
                 selectedOverlay, fetchCall, exports, frame>>

\* img.onerror: addWatermark rejects
SourceError(u) ==
  /\ u.pc = "img"
  /\ Decode(FileDataUrl(u.file)) = <<>>
  /\ uploads' = Ended(uploads, u)
  /\ UploadCatch(FileDataUrl(u.file))
  /\ event' = Outcome("upload", TRUE, "none",
                      [cause |-> "source", addWatermark |-> "rejected",
                       file |-> u.file, cleared |-> Len(overlayImages)])
  /\ UNCHANGED <<imageData, loading, selectedOverlay, fetchCall, exports,
                 frame>>

\* watermark.onload: addWatermark resolves with the stamped canvas
WatermarkLoad(u, ws) ==
  /\ u.pc = "wm"
  /\ uploads' = Ended(uploads, u)
  /\ LET f == u.file
     IN  /\ UploadInstall(CanvasDataUrl(f, <<WatermarkRect(f.width, f.height, ws)>>))
         /\ event' = Outcome("upload", FALSE, "none",
                             [cause |-> "stamped", addWatermark |-> "resolved",
                              file |-> f, cleared |-> Len(overlayImages)])
  /\ UNCHANGED <<imageData, loading, selectedOverlay, fetchCall, exports,
                 frame>>

\* watermark.onerror: addWatermark resolves with the unstamped canvas
WatermarkError(u) ==
  /\ u.pc = "wm"
  /\ uploads' = Ended(uploads, u)
  /\ LET f == u.file
     IN  /\ UploadInstall(WatermarkErrorResult(f))
         /\ event' = Outcome("upload", FALSE, "none",
                             [cause |-> "watermark", addWatermark |-> "resolved",
                              file |-> f, cleared |-> Len(overlayImages)])
  /\ UNCHANGED <<imageData, loading, selectedOverlay, fetchCall, exports,
                 frame>>

(***************************************************************************)
(* Drag and drop, selection, removal                                       *)
(***************************************************************************)
CenterOffset == 50
InitialScale == DDiv(DInt(3), DInt(10))
MaxInitialSize == 150

\* JSON.stringify(imageData) in handleDragStart; a drag from outside the page
\* carries no application/json data, and getData returns the empty string
JSONStringify(rec) == [text |-> "json", value |-> rec]
EmptyPayload == [text |-> "empty"]
\* JSON.parse: <<value>>, or <<>> when it throws
JSONParse(p) == IF p.text = "json" THEN <<p.value>> ELSE <<>>

\* Math.min(native * 0.3, 150) (the variant omits the cap)
InitialSizeUncapped(native) == DMul(DInt(native), InitialScale)
InitialSize(native) ==
  DMin(DMul(DInt(native), InitialScale), DInt(MaxInitialSize))

\* Math.max(0, c - 50)
InitialPos(c) == DMax(DInt(0), DSub(DInt(c), DInt(CenterOffset)))

\* the newOverlay literal of handleDrop, for a drop at (x, y) at clock reading t
NewOverlay(rec, x, y, t) ==
  [id |-> toString(t),
   src |-> rec.imageUrl,
   x |-> InitialPos(x),
   y |-> InitialPos(y),
   width |-> InitialSize(rec.fullSizeWidth),
   height |-> InitialSize(rec.fullSizeHeight),
   originalWidth |-> rec.fullSizeWidth,
   originalHeight |-> rec.fullSizeHeight]

\* drop on the frame of a payload that parses
DropOk(payload, client, origin, t) ==
  /\ JSONParse(payload) # <<>>
  /\ Len(overlayImages) < MaxOverlays
  /\ LET rec == JSONParse(payload)[1]
         x == client[1] - origin[1]
         y == client[2] - origin[2]
     IN  /\ overlayImages' = Append(overlayImages, NewOverlay(rec, x, y, t))
         /\ event' = Outcome("drop", FALSE, "success",
                             [x |-> x, y |-> y, data |-> rec])
  /\ UNCHANGED <<imageData, loading, baseImage, selectedOverlay, fetchCall,
                 uploads, exports, frame>>

\* drop on the frame of a payload that does not parse: the catch block
DropFail(payload) ==
  /\ JSONParse(payload) = <<>>
  /\ event' = Outcome("drop", TRUE, "error", NoDetail)
  /\ UNCHANGED <<imageData, loading, baseImage, overlayImages,
                 selectedOverlay, fetchCall, uploads, exports, frame>>

\* prev.filter(overlay => overlay.id !== id)
FilterOut(prev, id) == SelectSeq(prev, LAMBDA overlay : overlay.id # id)

\* the remove button of a rendered overlay (overlays render only over a base)
removeOverlay(id) ==
  /\ baseImage # NoBase
  /\ overlayImages' = FilterOut(overlayImages, id)
  /\ selectedOverlay' = Null
  /\ event' = Outcome("remove", FALSE, "none", [id |-> id])
  /\ UNCHANGED <<imageData, loading, baseImage, fetchCall, uploads,
                 exports, frame>>

\* the Clear Overlays button, rendered when there are overlays
clearAllOverlays ==
  /\ Len(overlayImages) > 0
  /\ overlayImages' = <<>>
  /\ selectedOverlay' = Null
  /\ event' = Outcome("clear", FALSE, "none", NoDetail)
  /\ UNCHANGED <<imageData, loading, baseImage, fetchCall, uploads,
                 exports, frame>>

\* click on a rendered overlay
SelectOverlay(id) ==
  /\ baseImage # NoBase
  /\ selectedOverlay' = id
  /\ event' = Quiet
  /\ UNCHANGED <<imageData, loading, baseImage, overlayImages, fetchCall,
                 uploads, exports, frame>>

(***************************************************************************)
(* exportImage                                                             *)
(***************************************************************************)
\* the size of a canvas element as document.createElement makes it
NewCanvasSize == <<300, 150>>

\* the drawImage call of the overlay loop on a canvas of size canvas, with the
\* frame's offsetWidth and offsetHeight fr (the variant scales both axes by scaleX)
ScaledRectOneScale(overlay, canvas, fr) ==
  LET scaleX == DDiv(DInt(canvas[1]), DInt(fr[1]))
  IN  <<DMul(overlay.x, scaleX), DMul(overlay.y, scaleX),
        DMul(overlay.width, scaleX), DMul(overlay.height, scaleX)>>
ScaledRect(overlay, canvas, fr) ==
  LET scaleX == DDiv(DInt(canvas[1]), DInt(fr[1]))
      scaleY == DDiv(DInt(canvas[2]), DInt(fr[2]))
  IN  <<DMul(overlay.x, scaleX), DMul(overlay.y, scaleY),
        DMul(overlay.width, scaleX), DMul(overlay.height, scaleY)>>

ExportUnchanged ==
  UNCHANGED <<imageData, loading, baseImage, overlayImages, selectedOverlay,
              fetchCall, uploads, frame>>

\* link.click() and toast.success of the export that was e when the step began
ExportFinish(e, done) ==
  /\ exports' = Ended(exports, e)
  /\ event' = Outcome("export", FALSE, "success",
                      [download |-> TRUE, base |-> done.base, ovs |-> done.ovs,
                       canvas |-> done.canvas, drawn |-> done.drawn])

\* the catch block
ExportCatch(e, cause) ==
  /\ exports' = Ended(exports, e)
  /\ event' = Outcome("export", TRUE, "error",
                      [download |-> FALSE, base |-> e.base, ovs |-> e.ovs,
                       canvas |-> e.canvas, drawn |-> e.drawn, cause |-> cause])

\* after a draw (or the base) that takes e to next: decode the next overlay,
\* or finish
ExportContinue(e, next) ==
  IF Len(next.drawn) < Len(next.ovs)
  THEN /\ exports' = Moved(exports, e, [next EXCEPT !.pc = "overlay"])
       /\ event' = Quiet
  ELSE ExportFinish(e, next)

\* the Export button (disabled without a base, enabled whatever earlier
\* exports are doing); the closure holds the rendered baseImage and
\* overlayImages
ExportStart ==
  /\ baseImage # NoBase
  /\ BagCardinality(exports) < MaxInflight
  /\ exports' = Started(exports,
                        [pc |-> "base", base |-> baseImage, ovs |-> overlayImages,
                         canvas |-> NewCanvasSize, drawn |-> <<>>])
  /\ event' = Quiet
  /\ ExportUnchanged

\* getContext('2d') yields null: exportImage returns
ExportNoContext ==
  /\ baseImage # NoBase
  /\ event' = Outcome("export", TRUE, "none", [download |-> FALSE, cause |-> "context"])
  /\ UNCHANGED exports
  /\ ExportUnchanged

\* baseImg.onload of export e
ExportBaseLoad(e) ==
  /\ e.pc = "base"
  /\ Decode(e.base) # <<>>
  /\ ExportContinue(e, [e EXCEPT !.canvas = Decode(e.base)[1]])
  /\ ExportUnchanged

\* baseImg.onerror of export e
ExportBaseError(e) ==
  /\ e.pc = "base"
  /\ Decode(e.base) = <<>>
  /\ ExportCatch(e, "base")
  /\ ExportUnchanged

\* overlayImg.onload of the overlay export e is decoding
ExportOverlayLoad(e) ==
  /\ e.pc = "overlay"
  /\ LET overlay == e.ovs[Len(e.drawn) + 1]
         call == [src |-> overlay.src, frame |-> frame,
                  rect |-> ScaledRect(overlay, e.canvas, frame)]
     IN  ExportContinue(e, [e EXCEPT !.drawn = Append(e.drawn, call)])
  /\ ExportUnchanged

\* overlayImg.onerror of the overlay export e is decoding: the promise rejects
\* and the catch block runs (the variant skips the overlay and finishes the
\* export)
ExportOverlaySkip(e) ==
  /\ e.pc = "overlay"
  /\ ExportFinish(e, [e EXCEPT !.ovs = SubSeq(e.ovs, 1, Len(e.drawn))])
  /\ ExportUnchanged
ExportOverlayError(e) ==
  /\ e.pc = "overlay"
  /\ ExportCatch(e, "overlay")
  /\ ExportUnchanged

(***************************************************************************)
(* Environment: the layout                                                 *)
(***************************************************************************)
Resize(fr) ==
  /\ fr # frame
  /\ frame' = fr
  /\ event' = Quiet
  /\ UNCHANGED <<imageData, loading, baseImage, overlayImages,
                 selectedOverlay, fetchCall, uploads, exports>>

(***************************************************************************)
(* Specifications                                                          *)
(***************************************************************************)
\* the load of the catalog that the mount effect starts
Loading(texts) ==
  \/ FetchFail
  \/ FetchOk
  \/ TextFail
  \/ \E csvText \in texts : TextOk(csvText)

\* the uploads whose reader, 2d context and watermark asset are available
UploadSteps ==
  \/ \E f \in Files : UploadStart(f)
  \/ \E u \in BagToSet(uploads) : ReaderLoad(u)
  \/ \E u \in BagToSet(uploads) : SourceLoad(u)
  \/ \E u \in BagToSet(uploads) : SourceError(u)
  \/ \E u \in BagToSet(uploads), ws \in WatermarkSizes : WatermarkLoad(u, ws)

\* the environment's faults during an upload
UploadFaults ==
  \/ \E u \in BagToSet(uploads) : ReaderError(u)
  \/ \E u \in BagToSet(uploads) : ReaderLoadNoContext(u)
  \/ \E u \in BagToSet(uploads) : WatermarkError(u)

Uploading ==
  \/ UploadSteps
  \/ UploadFaults

Dropping(points, readings) ==
  \/ \E rec \in Range(imageData), client \in points, origin \in RectOrigins,
        t \in readings :
       DropOk(JSONStringify(rec), client, origin, t)
  \/ DropFail(EmptyPayload)

Editing ==
  \/ \E k \in 1..Len(overlayImages) : removeOverlay(overlayImages[k].id)
  \/ clearAllOverlays

Selecting ==
  \E k \in 1..Len(overlayImages) : SelectOverlay(overlayImages[k].id)

Exporting ==
  \/ ExportStart
  \/ ExportNoContext
  \/ \E e \in BagToSet(exports) : ExportBaseLoad(e)
  \/ \E e \in BagToSet(exports) : ExportBaseError(e)
  \/ \E e \in BagToSet(exports) : ExportOverlayLoad(e)
  \/ \E e \in BagToSet(exports) : ExportOverlayError(e)

\* the catalog, the base upload and the overlays, from the mounted application:
\* the handlers that write baseImage and overlayImages
Next ==
  \/ Loading(CsvTexts)
  \/ Uploading
  \/ Dropping(ClientPoints, ClockReadings)
  \/ Editing

Spec == Init /\ [][Next]_vars

\* the catalog loader alone, with the Refresh button, over every catalog text
NextCsv ==
  \/ FetchStart
  \/ Loading(CsvTextsAll)

SpecCsv == Init /\ [][NextCsv]_vars

\* the bases an upload installs: the stamped canvas of a file that decodes,
\* and the file that does not decode, installed by the catch block
ExportBases ==
  {CanvasDataUrl(TankFile, <<WatermarkRect(TankFile.width, TankFile.height, ws)>>) :
     ws \in WatermarkSizes}
  \cup {FileDataUrl(CorruptFile)}

\* the export, with the handlers that change what it reads while it is in
\* flight (drops at one point and one clock reading, removals, the layout),
\* from the states in which the catalog has been loaded and an upload has
\* installed a base
InitExport ==
  /\ imageData = ParseCsv(ExportCatalog)
  /\ loading = FALSE
  /\ baseImage \in ExportBases
  /\ overlayImages = <<>>
  /\ selectedOverlay = Null
  /\ fetchCall = "idle"
  /\ uploads = EmptyBag
  /\ exports = EmptyBag
  /\ frame = InitialFrame
  /\ event = Quiet

NextExport ==
  \/ Dropping(ExportPoints, ExportReadings)
  \/ Editing
  \/ Selecting
  \/ Exporting
  \/ \E fr \in Frames : Resize(fr)

SpecExport == InitExport /\ [][NextExport]_vars

(***************************************************************************)
(* Properties                                                              *)
(***************************************************************************)
\* the native size of the image a base data URL holds
NativeSize(url) == <<url.file.width, url.file.height>>

\* the scale factor W / fw of an axis
ScaleFactor(W, fw) == DDiv(DInt(W), DInt(fw))

ExportDrawsScaled(e) ==
  /\ e.canvas = NativeSize(e.base)
  /\ Len(e.drawn) <= Len(e.ovs)
  /\ \A i \in 1..Len(e.drawn) :
       LET o == e.ovs[i]
           sx == ScaleFactor(NativeSize(e.base)[1], e.drawn[i].frame[1])
           sy == ScaleFactor(NativeSize(e.base)[2], e.drawn[i].frame[2])
       IN  e.drawn[i].rect = <<DMul(o.x, sx), DMul(o.y, sy),
                               DMul(o.width, sx), DMul(o.height, sy)>>

\* C1: every overlay an export draws is drawn on a canvas of the base's native
\* size (W, H) at the display rectangle times the scale factors (W/fw, H/fh),
\* that is at (x*(W/fw), y*(H/fh), w*(W/fw), h*(H/fh)) as numbers of the
\* program, for the overlay list the export started with and the frame size
\* (fw, fh) read at the draw; an export that succeeds has drawn every overlay
\* of that list, in order.
C1_ExportScalesToNative ==
  /\ \A e \in BagToSet(exports) : e.pc = "overlay" => ExportDrawsScaled(e)
  /\ (event.op = "export" /\ event.detail.download) =>
       /\ ExportDrawsScaled(event.detail)
       /\ Len(event.detail.drawn) = Len(event.detail.ovs)
  /\ (event.op = "export" /\ event.failed /\ event.detail.cause = "overlay") =>
       ExportDrawsScaled(event.detail)

\* the example of the specification: base 800x600 in a frame of 400x300, the
\* placement (40,40,60,60) drawn at (80,80,120,120); and a draw in a frame of
\* 300x600, where the scale factor 800/300 is rounded: x = 40 is drawn at
\* 40 * (800/300) = 106.66666666666666, the double below 32000/300
C1_Witness ==
  /\ event.op = "export"
  /\ event.detail.download
  /\ event.detail.canvas = <<800, 600>>
  /\ Len(event.detail.drawn) = 2
  /\ event.detail.drawn[1].frame = <<400, 300>>
  /\ event.detail.ovs[1].x = DInt(40)
  /\ event.detail.ovs[1].width = DInt(60)
  /\ event.detail.drawn[1].rect = <<DInt(80), DInt(80), DInt(120), DInt(120)>>
  /\ event.detail.drawn[2].frame = <<300, 600>>
  /\ event.detail.ovs[2].x = DInt(40)
  /\ event.detail.drawn[2].rect[1] = DMul(DInt(40), DDiv(DInt(800), DInt(300)))
  /\ event.detail.drawn[2].rect[1] # DDiv(DInt(32000), DInt(300))
  /\ event.detail.drawn[2].rect[2] = DInt(40)

\* C2: when the overlay an export is decoding fails to decode, the export
\* ends in that step with one error toast, no download and no success toast,
\* having drawn only the overlays before the failing one, and the step leaves
\* baseImage, overlayImages and selectedOverlay as they were.
C2_OverlayDecodeErrorAborts ==
  [][\A e \in BagToSet(exports) :
       (/\ e.pc = "overlay"
        /\ exports' = Ended(exports, e)
        /\ event'.op = "export"
        /\ event'.detail.base = e.base
        /\ event'.detail.drawn = e.drawn)
       => (/\ event'.failed
           /\ event'.toast = "error"
           /\ ~event'.detail.download
           /\ Len(event'.detail.drawn) < Len(e.ovs)
           /\ UNCHANGED <<baseImage, overlayImages, selectedOverlay>>)]_vars

\* an export aborted at its second overlay while another export is in flight,
\* with an overlay selected and the overlay list changed since the export
\* started
C2_Witness ==
  /\ event.op = "export"
  /\ event.failed
  /\ event.toast = "error"
  /\ event.detail.cause = "overlay"
  /\ Len(event.detail.ovs) = 2
  /\ Len(event.detail.drawn) = 1
  /\ selectedOverlay # Null
  /\ overlayImages # event.detail.ovs
  /\ BagCardinality(exports) = 1

UploadCompleted ==
  event.op = "upload" /\ event.detail.cause \in {"stamped", "watermark", "source", "context"}

\* C3: in the state right after an upload installs a base, stamped or as the
\* fallback, the overlay list is empty, whatever it held before.
C3_UploadClearsOverlays ==
  UploadCompleted =>
    /\ baseImage # NoBase
    /\ overlayImages = <<>>

\* the fallback upload completes over a full overlay list, while another
\* upload is in flight
C3_Witness ==
  /\ UploadCompleted
  /\ event.detail.cause = "source"
  /\ event.detail.cleared = MaxOverlays
  /\ overlayImages = <<>>
  /\ BagCardinality(uploads) = 1

\* C4 (as claimed): removeOverlay(id) with id in the list deletes exactly one
\* element and keeps the others in order; with id not in the list it changes nothing.
C4_RemoveExactlyOne ==
  [][event'.op = "remove" =>
       LET id == event'.detail.id
       IN  IF \E k \in 1..Len(overlayImages) : overlayImages[k].id = id
           THEN /\ Len(overlayImages') = Len(overlayImages) - 1
                /\ \E k \in 1..Len(overlayImages) :
                     /\ overlayImages[k].id = id
                     /\ overlayImages' = RemoveAt(overlayImages, k)
           ELSE overlayImages' = overlayImages]_vars

\* C5 (as claimed): no two overlays of the list have the same id.
C5_IdsUnique ==
  \A i, j \in 1..Len(overlayImages) :
    i # j => overlayImages[i].id # overlayImages[j].id

\* 0.3, the double nearest to 3/10
ThreeTenths == DDiv(DInt(3), DInt(10))

\* C6: a drop at (cx, cy) of a record of native size (nw, nh) appends an
\* overlay with x = max(0, cx-50), y = max(0, cy-50), width = min(0.3*nw, 150),
\* height = min(0.3*nh, 150), as numbers of the program; every overlay of the
\* list has x >= 0, y >= 0, width <= 150 and height <= 150.
C6_DropPlacement ==
  /\ (event.op = "drop" /\ ~event.failed) =>
       /\ overlayImages # <<>>
       /\ LET o == overlayImages[Len(overlayImages)]
              cx == event.detail.x
              cy == event.detail.y
              nw == event.detail.data.fullSizeWidth
              nh == event.detail.data.fullSizeHeight
          IN  /\ o.x = DInt(IF cx - 50 > 0 THEN cx - 50 ELSE 0)
              /\ o.y = DInt(IF cy - 50 > 0 THEN cy - 50 ELSE 0)
              /\ o.width = DMin(DMul(ThreeTenths, DInt(nw)), DInt(150))
              /\ o.height = DMin(DMul(ThreeTenths, DInt(nh)), DInt(150))
              /\ o.src = event.detail.data.imageUrl
  /\ \A k \in 1..Len(overlayImages) :
       /\ DLeq(DInt(0), overlayImages[k].x)
       /\ DLeq(DInt(0), overlayImages[k].y)
       /\ DLeq(overlayImages[k].width, DInt(150))
       /\ DLeq(overlayImages[k].height, DInt(150))

\* the example of the specification: a record of native size 1000x500 dropped
\* near the left edge is placed at x = 0 with size 150x150, after an overlay
\* of native size 200x3, whose width is 60 and whose height 0.3 * 3 is
\* 0.8999999999999999, the double below 9/10
C6_Witness ==
  /\ event.op = "drop"
  /\ ~event.failed
  /\ event.detail.data.fullSizeWidth = 1000
  /\ event.detail.data.fullSizeHeight = 500
  /\ event.detail.x < 50
  /\ Len(overlayImages) = 2
  /\ overlayImages[1].width = DInt(60)
  /\ overlayImages[1].originalHeight = 3
  /\ overlayImages[1].height # DDiv(DInt(9), DInt(10))
  /\ DLeq(overlayImages[1].height, DDiv(DInt(9), DInt(10)))
  /\ overlayImages[2].x = DInt(0)
  /\ overlayImages[2].width = DInt(150)
  /\ overlayImages[2].height = DInt(150)

\* C7: when the watermark asset fails to load, addWatermark resolves and the
\* upload installs the source drawn alone, at its native size; when the source
\* fails to decode, addWatermark rejects and the upload falls back to the file.
C7_WatermarkFailurePolicy ==
  /\ (event.op = "upload" /\ event.detail.cause = "watermark") =>
       /\ event.detail.addWatermark = "resolved"
       /\ ~event.failed
       /\ baseImage.kind = "canvas"
       /\ baseImage.file = event.detail.file
       /\ baseImage.width = event.detail.file.width
       /\ baseImage.height = event.detail.file.height
       /\ baseImage.watermark = <<>>
  /\ (event.op = "upload" /\ event.detail.cause = "source") =>
       /\ event.detail.addWatermark = "rejected"
       /\ baseImage = FileDataUrl(event.detail.file)

\* the watermark asset failed to load for the 800x600 file
C7_Witness ==
  /\ event.op = "upload"
  /\ event.detail.cause = "watermark"
  /\ event.detail.file = TankFile
  /\ baseImage.width = 800

\* C8 (as claimed): a step in which a handler fails raises an error toast and
\* leaves imageData, baseImage, overlayImages and selectedOverlay as they were.
C8_FailuresNotifyAndPreserve ==
  [][event'.failed =>
       /\ event'.toast = "error"
       /\ UNCHANGED <<imageData, baseImage, overlayImages, selectedOverlay>>]_vars

\* the lines of a catalog text after the header that have at least 6 fields,
\* as positions in the text's lines (1 is the header)
CommaCount(line) == Cardinality({j \in 1..Len(line) : line[j] = ","})
AcceptedLines(csvText) ==
  LET lines == Split(csvText, "\n")
  IN  SelectSeq([k \in 1..(Len(lines) - 1) |-> k + 1],
                LAMBDA k : CommaCount(lines[k]) >= 5)

\* the catalog loaded from csvText when a blank name becomes "Image" and
\* Label(k) for the k-th line of the text
LoadedAs(csvText, Label(_)) ==
  LET lines == Split(csvText, "\n")
      acc == AcceptedLines(csvText)
  IN  /\ Len(imageData) = Len(acc)
      /\ \A j \in 1..Len(acc) :
           LET columns == Columns(Trim(lines[acc[j]]))
           IN  /\ imageData[j].imageUrl = columns[3]
               /\ imageData[j].name =
                    (IF columns[2] = <<>>
                     THEN <<"I", "m", "a", "g", "e", " ">> \o toString(Label(acc[j]))
                     ELSE columns[2])

OneBasedLineIndex(k) == k
ZeroBasedLineIndex(k) == k - 1

\* C9 (as claimed): the loaded catalog is the rows after the header with at
\* least 6 fields, in order, a blank name becoming "Image i" for the 1-based
\* line index i of the row.
C9_Original ==
  (event.op = "fetch" /\ ~event.failed) =>
    LoadedAs(event.detail.csvText, OneBasedLineIndex)

\* C9 (amended): the same, with i the 0-based line index of the row (the
\* header is line 0), which is its 1-based position among the lines after the
\* header.
C9_CatalogRows ==
  (event.op = "fetch" /\ ~event.failed) =>
    LoadedAs(event.detail.csvText, ZeroBasedLineIndex)

\* a catalog of a short row, which is excluded, and a row with a blank name
C9_Witness ==
  /\ event.op = "fetch"
  /\ ~event.failed
  /\ event.detail.csvText = JoinLines(<<HeaderLine, LineShort, LineB>>)
  /\ Len(imageData) = 1
  /\ imageData[1].name = <<"I", "m", "a", "g", "e", " ", "2">>

\* C10 (as claimed): overlays exist only over a loaded base, and a drop made
\* with no base loaded leaves no overlay in the list.
C10_OverlaysNeedBase ==
  /\ overlayImages # <<>> => baseImage # NoBase
  /\ (event.op = "drop" /\ baseImage = NoBase) => overlayImages = <<>>

====
